---- MODULE Spec2Model ----
(***************************************************************************)
(* Model of src/client/src/util/factory.js: the Locator                    *)
(* (GoogleSheetInput.build), the three ingestion paths (public sheet, CSV, *)
(* protected sheet), the authentication flow of GoogleSheet, the domain    *)
(* builder plotRadar and the error displays.                               *)
(*                                                                         *)
(* Strings are sequences of one-character strings, so that endsWith,       *)
(* trimming, lower-casing and concatenation are computed, not assumed.     *)
(***************************************************************************)
EXTENDS Integers, Sequences, FiniteSets, TLC

\* ------------------------------------------------------------------ bounds

\* Longest table (number of data rows) a remote read delivers.
MaxRows == 5
\* Number of different ring names the delivered tables draw from.
NumRingNames == 5
\* Clicks on the SWITCH ACCOUNT button that are followed.
MaxClicks == 1
\* Longest table delivered under a header row that fails validation.
MaxUnreadRows == 2

\* ----------------------------------------------------------------- strings

Undefined == <<"undefined">>

Range(s) == {s[i] : i \in 1..Len(s)}

EndsWith(s, suffix) ==
  /\ Len(s) >= Len(suffix)
  /\ SubSeq(s, Len(s) - Len(suffix) + 1, Len(s)) = suffix

LowerChar(c) ==
  CASE c = "T" -> "t"
    [] c = "R" -> "r"
    [] c = "U" -> "u"
    [] c = "E" -> "e"
    [] c = "Y" -> "y"
    [] c = "S" -> "s"
    [] c = "A" -> "a"
    [] c = "B" -> "b"
    [] c = "Q" -> "q"
    [] OTHER -> c

UpperChar(c) ==
  CASE c = "t" -> "T"
    [] c = "r" -> "R"
    [] c = "u" -> "U"
    [] c = "e" -> "E"
    [] c = "y" -> "Y"
    [] c = "s" -> "S"
    [] c = "a" -> "A"
    [] c = "b" -> "B"
    [] c = "p" -> "P"
    [] c = "q" -> "Q"
    [] OTHER -> c

ToLowerCase(s) == [i \in 1..Len(s) |-> LowerChar(s[i])]

\* lodash capitalize: first character upper-cased, the rest lower-cased.
Capitalize(s) == [i \in 1..Len(s) |-> IF i = 1 THEN UpperChar(s[i]) ELSE LowerChar(s[i])]

RECURSIVE TrimLeft(_)
TrimLeft(s) == IF s /= <<>> /\ Head(s) = " " THEN TrimLeft(Tail(s)) ELSE s

RECURSIVE TrimRight(_)
TrimRight(s) ==
  IF s /= <<>> /\ s[Len(s)] = " " THEN TrimRight(SubSeq(s, 1, Len(s) - 1)) ELSE s

Trim(s) == TrimRight(TrimLeft(s))

DotCsv == <<".", "c", "s", "v">>
Csv == <<"c", "s", "v">>
True == <<"t", "r", "u", "e">>
Dash == <<" ", "-", " ">>

\* ------------------------------------------------------------- exceptions

NoError == "none"
MalformedDataError == "MalformedDataError"
SheetNotFoundError == "SheetNotFoundError"
TypeError == "TypeError"
OtherError == "OtherError"

\* --------------------------------------------------------------- plotRadar

maxRings == 4

\* _.map(_.uniqBy(blips, 'ring'), 'ring'): the distinct ring names in order of
\* first appearance.
RECURSIVE UniqRings(_)
UniqRings(blips) ==
  IF blips = <<>> THEN <<>>
  ELSE LET front == UniqRings(SubSeq(blips, 1, Len(blips) - 1))
           last == blips[Len(blips)].ring
       IN IF last \in Range(front) THEN front ELSE Append(front, last)

\* EachRing with the bound tested as i > maxRings: a fifth Ring gets created.
RECURSIVE EachRingOffByOne(_, _, _)
EachRingOffByOne(rings, i, ringMap) ==
  IF i >= Len(rings) THEN [threw |-> NoError, ringMap |-> ringMap]
  ELSE IF i > 4 THEN [threw |-> MalformedDataError, ringMap |-> ringMap]
  ELSE EachRingOffByOne(rings, i + 1,
                        Append(ringMap, [name |-> rings[i + 1], order |-> i]))

\* EachRing that numbers the Rings from 1.
RECURSIVE EachRingOneBased(_, _, _)
EachRingOneBased(rings, i, ringMap) ==
  IF i >= Len(rings) THEN [threw |-> NoError, ringMap |-> ringMap]
  ELSE IF i = 4 THEN [threw |-> MalformedDataError, ringMap |-> ringMap]
  ELSE EachRingOneBased(rings, i + 1,
                        Append(ringMap, [name |-> rings[i + 1], order |-> i + 1]))

\* _.each(rings, function (ringName, i) {...}): i is the 0-based index; the
\* pass stops with the exception at i === maxRings, the Rings of the earlier
\* indices having been created.
RECURSIVE EachRing(_, _, _)
EachRing(rings, i, ringMap) ==
  IF i >= Len(rings) THEN [threw |-> NoError, ringMap |-> ringMap]
  ELSE IF i = maxRings THEN [threw |-> MalformedDataError, ringMap |-> ringMap]
  ELSE EachRing(rings, i + 1, Append(ringMap, [name |-> rings[i + 1], order |-> i]))

\* ringMap[blip.ring]
RingOf(ringMap, ringName) ==
  IF \E k \in 1..Len(ringMap) : ringMap[k].name = ringName
  THEN ringMap[CHOOSE k \in 1..Len(ringMap) : ringMap[k].name = ringName]
  ELSE [name |-> Undefined, order |-> -1]

\* NewBlip that compares isNew with 'true' without lower-casing it.
NewBlipExactTrue(blip, ringMap) ==
  [name |-> blip.name,
   ring |-> RingOf(ringMap, blip.ring),
   isNew |-> (blip.isNew = True),
   topic |-> blip.topic,
   description |-> blip.description]

\* new Blip(blip.name, ringMap[blip.ring], blip.isNew.toLowerCase() === 'true', ...)
NewBlip(blip, ringMap) ==
  [name |-> blip.name,
   ring |-> RingOf(ringMap, blip.ring),
   isNew |-> (ToLowerCase(blip.isNew) = True),
   topic |-> blip.topic,
   description |-> blip.description]

\* The property names the object literal {} inherits from Object.prototype:
\* quadrants[key] is truthy for them although no Quadrant was stored.
Constructor == <<"c", "o", "n", "s", "t", "r", "u", "c", "t", "o", "r">>
InheritedKeys == {Constructor, <<"t", "o", "S", "t", "r", "i", "n", "g">>}

\* _.each(blips, function (blip) {...}): quadrants keyed by blip.quadrant in
\* order of first appearance, each new Blip added to the Quadrant of its key.
\* For a key that {} inherits, !quadrants[key] is false, no Quadrant is
\* created and quadrants[key].add is not a function: the pass ends with a
\* TypeError, the Quadrants of the earlier blips having been created.
RECURSIVE EachBlip(_, _, _)
EachBlip(blips, ringMap, quadrants) ==
  IF blips = <<>> THEN [threw |-> NoError, quadrants |-> quadrants]
  ELSE LET blip == Head(blips)
           own == \E k \in 1..Len(quadrants) : quadrants[k].key = blip.quadrant
           known == own \/ blip.quadrant \in InheritedKeys
           withKey == IF known THEN quadrants
                      ELSE Append(quadrants, [key |-> blip.quadrant,
                                              name |-> Capitalize(blip.quadrant),
                                              blips |-> <<>>])
           q == CHOOSE k \in 1..Len(withKey) : withKey[k].key = blip.quadrant
       IN IF ~own /\ known THEN [threw |-> TypeError, quadrants |-> quadrants]
          ELSE EachBlip(Tail(blips), ringMap,
                        [withKey EXCEPT ![q].blips = Append(@, NewBlip(blip, ringMap))])

RECURSIVE CountBlips(_)
CountBlips(quadrants) ==
  IF quadrants = <<>> THEN 0
  ELSE Len(Head(quadrants).blips) + CountBlips(Tail(quadrants))

StripCsv(title) ==
  IF EndsWith(title, DotCsv) THEN SubSeq(title, 1, Len(title) - 4) ELSE title

\* The outcome of one call of plotRadar: the exception it ends with (NoError
\* when it returns), the document title it set, the objects it created and the
\* Radar it handed to GraphingRadar.
plotRadar(title, blips, currentRadarName, alternativeRadars) ==
  LET rings == UniqRings(blips)
      ringPass == EachRing(rings, 0, <<>>)
      blipPass == IF ringPass.threw = NoError
                  THEN EachBlip(blips, ringPass.ringMap, <<>>)
                  ELSE [threw |-> ringPass.threw, quadrants |-> <<>>]
      quadrants == blipPass.quadrants
  IN [threw |-> blipPass.threw,
      title |-> StripCsv(title),
      ringsCreated |-> Len(ringPass.ringMap),
      quadrantsCreated |-> Len(quadrants),
      blipsCreated |-> CountBlips(quadrants),
      ringMap |-> ringPass.ringMap,
      radar |-> [quadrants |-> [k \in 1..Len(quadrants) |->
                                  [name |-> quadrants[k].name,
                                   blips |-> quadrants[k].blips]],
                 alternatives |-> alternativeRadars,
                 currentSheet |-> currentRadarName]]

\* -------------------------------------------------------- ContentValidator

RequiredHeaders == {"name", "ring", "quadrant", "isNew", "description"}

\* new ContentValidator(columnNames).verifyContent(): the validator sees only
\* what its constructor was handed, and fails when that is empty.
verifyContent(columnNames) ==
  IF Len(columnNames) = 0 THEN MalformedDataError ELSE NoError

\* verifyHeaders(): fails unless every required field is among the columns.
verifyHeaders(columnNames) ==
  IF RequiredHeaders \subseteq Range(columnNames) THEN NoError ELSE MalformedDataError

\* verifyContent() followed by verifyHeaders(), the first failure winning.
Validate(columnNames) ==
  IF verifyContent(columnNames) /= NoError THEN verifyContent(columnNames)
  ELSE verifyHeaders(columnNames)

\* ---------------------------------------------------------- InputSanitizer

BlipFields == {"name", "ring", "quadrant", "isNew", "topic", "description"}

\* sanitize(rawBlip): the row is keyed by column name; every field is trimmed
\* and a missing column gives the blank string.
sanitize(rawBlip) ==
  [f \in BlipFields |-> IF f \in DOMAIN rawBlip THEN Trim(rawBlip[f]) ELSE <<>>]

IndexOf(header, column) ==
  IF column \in Range(header)
  THEN (CHOOSE i \in 1..Len(header) :
          header[i] = column /\ \A j \in 1..(i - 1) : header[j] /= column)
  ELSE 0

\* sanitizeForProtectedSheet(rawBlip, header): the row is positional; each
\* field is read at the index of its label in the header row.
sanitizeForProtectedSheet(rawBlip, header) ==
  [f \in BlipFields |->
     IF IndexOf(header, f) \in 1..Len(rawBlip)
     THEN Trim(rawBlip[IndexOf(header, f)])
     ELSE <<>>]

\* ------------------------------------------------------------------ Locator

\* url.replace(/\+/g, ' '); the navigation contexts of the model carry no
\* percent-escapes, on which decodeURIComponent changes nothing.
Decode(url) == [i \in 1..Len(url) |-> IF url[i] = "+" THEN " " ELSE url[i]]

IsSlash(c) == c = "/" \/ c = "\\"

\* The end of the run of non-slash characters of s that starts at index from.
RECURSIVE RunEnd(_, _)
RunEnd(s, from) ==
  IF from + 1 <= Len(s) /\ ~IsSlash(s[from + 1]) THEN RunEnd(s, from + 1) ELSE from

\* /.+:\/\/([^\\/]+)/: the greedy .+ stops at the last "://" that has a
\* character before it and a non-slash character after it.
SchemeMarks(s) ==
  {p \in 2..(Len(s) - 3) :
     /\ SubSeq(s, p, p + 2) = <<":", "/", "/">>
     /\ ~IsSlash(s[p + 3])}

Null == <<"null">>

DomainName(url) ==
  LET s == Decode(url)
      marks == SchemeMarks(s)
  IN IF marks = {} THEN Null
     ELSE LET p == CHOOSE m \in marks : \A n \in marks : n <= m
          IN SubSeq(s, p + 3, RunEnd(s, p + 3))

\* /([^\\/]+)$/: the last run of non-slash characters, when the string ends
\* with one; the url itself otherwise.
FileName(url) ==
  LET s == Decode(url)
      starts == {p \in 1..Len(s) : \A k \in p..Len(s) : ~IsSlash(s[k])}
  IN IF starts = {} THEN url
     ELSE SubSeq(s, CHOOSE p \in starts : \A n \in starts : p <= n, Len(s))

SheetIdKey == <<"s", "h", "e", "e", "t", "I", "d">>
SheetNameKey == <<"s", "h", "e", "e", "t", "N", "a", "m", "e">>

\* window.location.href.match(/sheetId(.*)/): the href from the first
\* "sheetId" to its end, or Null.
MatchSheetId(href) ==
  LET at == {p \in 1..(Len(href) - 6) : SubSeq(href, p, p + 6) = SheetIdKey}
  IN IF at = {} THEN Null
     ELSE SubSeq(href, CHOOSE p \in at : \A n \in at : p <= n, Len(href))

\* The value of parameter key in a query string of "key=value" pairs joined
\* by "&"; Undefined when no pair has that key.
RECURSIVE ParamValue(_, _)
ParamValue(query, key) ==
  IF query = <<>> THEN Undefined
  ELSE LET amps == {p \in 1..Len(query) : query[p] = "&"}
           stop == IF amps = {} THEN Len(query) + 1
                   ELSE CHOOSE p \in amps : \A n \in amps : p <= n
           pair == SubSeq(query, 1, stop - 1)
           rest == SubSeq(query, stop + 1, Len(query))
           eqs == {p \in 1..Len(pair) : pair[p] = "="}
           eq == IF eqs = {} THEN Len(pair) + 1
                 ELSE CHOOSE p \in eqs : \A n \in eqs : p <= n
           later == ParamValue(rest, key)
       IN IF later /= Undefined THEN later
          ELSE IF SubSeq(pair, 1, eq - 1) = key
               THEN Decode(SubSeq(pair, eq + 1, Len(pair)))
               ELSE Undefined

\* queryString ? QueryParams(queryString[0]) : {}
QueryParams(href) ==
  LET queryString == MatchSheetId(href)
  IN IF queryString = Null
     THEN [sheetId |-> Undefined, sheetName |-> Undefined]
     ELSE [sheetId |-> ParamValue(queryString, SheetIdKey),
           sheetName |-> ParamValue(queryString, SheetNameKey)]

\* The branch GoogleSheetInput.build takes.
Classify(search) ==
  LET domainName == DomainName(search)
      queryParams == QueryParams(search)
  IN IF domainName /= Null /\ queryParams.sheetId = Undefined THEN "TypeError"
     ELSE IF domainName /= Null /\ EndsWith(queryParams.sheetId, Csv) THEN "CSV"
     ELSE IF /\ domainName /= Null
             /\ EndsWith(domainName, <<"g", "o", "o", "g", "l", "e", ".", "c", "o", "m">>)
             /\ queryParams.sheetId /= <<>>
          THEN "GoogleSheet"
     ELSE "FormPrompt"

\* ------------------------------------------- what the remote reads deliver

Letters == <<"a", "b", "c", "d", "e", "f", "g", "h">>
RingNames == {<<Letters[i]>> : i \in 1..NumRingNames}

NamedRing(i) ==
  [name |-> <<"n">>, ring |-> <<Letters[i]>>, quadrant |-> <<"q">>, isNew |-> True,
   description |-> <<"d">>]

\* A row in quadrant "p" whose ring cell is the first ring name with a
\* leading blank.
PaddedRow ==
  [name |-> <<"m">>, ring |-> <<" ", "a">>, quadrant |-> <<"p">>,
   isNew |-> <<"n", "o">>, description |-> <<"d">>]

\* A row of the first ring whose quadrant cell is a name that every plain
\* object inherits.
InheritedRow ==
  [name |-> <<"k">>, ring |-> <<"a">>, quadrant |-> Constructor,
   isNew |-> <<"T", "R", "U", "E">>, description |-> <<"d">>]

\* The number of ring names the unpadded rows of a row sequence use.
RingsUsed(rows) ==
  Cardinality({rows[k].ring : k \in {j \in 1..Len(rows) : rows[j] /= PaddedRow}})

\* The logical row sequences of n rows. The code handles ring names only by
\* equality, so of the sequences that differ by a renaming of the ring names
\* one is kept: the one whose unpadded ring names first appear in
\* alphabetical order.
RECURSIVE LogicalRows(_)
LogicalRows(n) ==
  IF n = 0 THEN {<<>>}
  ELSE UNION {{Append(rows, PaddedRow)}
                \cup {Append(rows, NamedRing(i)) :
                        i \in 1..(IF RingsUsed(rows) < NumRingNames
                                  THEN RingsUsed(rows) + 1 ELSE NumRingNames)}
              : rows \in LogicalRows(n - 1)}

GoodHeader == <<"name", "ring", "quadrant", "isNew", "description">>
ShortHeader == <<"name", "ring", "quadrant", "isNew">>
Headers == {GoodHeader, ShortHeader, <<>>}

\* A logical row as the positional value sequence under a header row.
Positional(header, row) == [i \in 1..Len(header) |-> row[header[i]]]

\* A positional row as the object keyed by column name that Tabletop and
\* d3.csv deliver.
NamedRow(header, row) == [c \in Range(header) |-> row[IndexOf(header, c)]]

\* The row sequences of n rows delivered: the logical ones, and those that
\* end with the row of the inherited quadrant name (the pass of plotRadar over
\* the blips ends at that row).
DeliveredRows(n) ==
  LogicalRows(n)
    \cup (IF n = 0 THEN {}
          ELSE {Append(rows, InheritedRow) : rows \in LogicalRows(n - 1)})

\* The row sequences delivered under a header row; under a header row that
\* lacks a required column, those of at most MaxUnreadRows rows.
RowSeqs(header) ==
  UNION {{[k \in 1..n |-> Positional(header, rows[k])] : rows \in DeliveredRows(n)}
         : n \in 0..(IF RequiredHeaders \subseteq Range(header) THEN MaxRows
                     ELSE MaxUnreadRows)}

Tables == UNION {{[header |-> h, rows |-> rs] : rs \in RowSeqs(h)} : h \in Headers}

\* The value sequence of a protected read: the header row, then the rows; or
\* no value at all.
ValueSeqs == {<<>>} \cup {<<t.header>> \o t.rows : t \in Tables}

TabA == <<"A">>
TabB == <<"B">>
\* A tab named like a file.
TabCsv == <<"S">> \o DotCsv
SheetNameLists == {<<TabA, TabB>>, <<TabCsv>>}
DocName == <<"R">>
CsvFile == <<"C", "S", "V", " ", "F", "i", "l", "e">>
DefaultTitle == <<"M", "C", "S">>

Https == <<"h", "t", "t", "p", "s", ":", "/", "/">>
GoogleHost == <<"d", "o", "c", "s", ".", "g", "o", "o", "g", "l", "e", ".", "c", "o", "m">>
OtherHost == <<"x", ".", "i", "o">>

\* The query strings (window.location.search without its "?") of the model.
NavContexts ==
  { <<>>,
    SheetIdKey \o <<"=">> \o Https \o GoogleHost \o <<"/", "s">>,
    SheetIdKey \o <<"=">> \o Https \o GoogleHost \o <<"/", "s", "&">>
       \o SheetNameKey \o <<"=">> \o TabB,
    SheetIdKey \o <<"=">> \o Https \o OtherHost \o <<"/", "d">> \o DotCsv,
    SheetIdKey \o <<"=">> \o Https \o OtherHost \o <<"/", "s">>,
    SheetIdKey \o <<"=", "a", "b", "c">>,
    <<"q", "=">> \o Https \o OtherHost \o <<"/">> }

\* ------------------------------------------------------ ingestion handlers

NoPlot ==
  [called |-> FALSE, threw |-> NoError, title |-> <<>>, ringsCreated |-> 0,
   quadrantsCreated |-> 0, blipsCreated |-> 0, ringMap |-> <<>>,
   radar |-> [quadrants |-> <<>>, alternatives |-> <<>>, currentSheet |-> <<>>]]

Plot(title, blips, currentRadarName, alternativeRadars) ==
  [called |-> TRUE] @@ plotRadar(title, blips, currentRadarName, alternativeRadars)

RECURSIVE Repeat(_, _)
Repeat(s, n) == IF n = 0 THEN <<>> ELSE s \o Repeat(s, n - 1)

\* DesignatedSheet that takes the last tab for the first.
DesignatedSheetLastTab(sheetName, sheetNames) ==
  IF sheetName = Undefined \/ sheetName = <<>>
  THEN (IF sheetNames = <<>> THEN Undefined ELSE sheetNames[Len(sheetNames)])
  ELSE sheetName

\* if (!sheetName) { sheetName = sheetNames[0] }
DesignatedSheet(sheetName, sheetNames) ==
  IF sheetName = Undefined \/ sheetName = <<>>
  THEN (IF sheetNames = <<>> THEN Undefined ELSE sheetNames[1])
  ELSE sheetName

\* The calls verifyContent(); verifyHeaders() make, up to the first failure.
ValidateCalls(columnNames) ==
  IF verifyContent(columnNames) /= NoError THEN <<"verifyContent">>
  ELSE <<"verifyContent", "verifyHeaders">>

\* The body of GoogleSheet.build's createBlips, inside its try: the calls it
\* makes in order, the exception it ends with and the plotRadar outcome.
createBlips(tabletop, sheetName) ==
  LET name == DesignatedSheet(sheetName, tabletop.foundSheetNames)
  IN IF name \notin Range(tabletop.foundSheetNames)
     THEN \* tabletop.sheets(sheetName) is undefined
          [calls |-> <<>>, threw |-> TypeError, plot |-> NoPlot, blips |-> <<>>,
           sheetName |-> name]
     ELSE LET columnNames == tabletop.table.header
              all == [k \in 1..Len(tabletop.table.rows) |->
                        NamedRow(columnNames, tabletop.table.rows[k])]
              blips == [k \in 1..Len(all) |-> sanitize(all[k])]
              plot == Plot(tabletop.googleSheetName \o Dash \o name, blips, name,
                           tabletop.foundSheetNames)
          IN IF Validate(columnNames) /= NoError
             THEN [calls |-> ValidateCalls(columnNames), threw |-> Validate(columnNames),
                   plot |-> NoPlot, blips |-> <<>>, sheetName |-> name]
             ELSE [calls |-> ValidateCalls(columnNames) \o Repeat(<<"sanitize">>, Len(all))
                               \o <<"plotRadar">>,
                   threw |-> plot.threw, plot |-> plot, blips |-> blips, sheetName |-> name]

\* The body of CSVDocument's createBlips, inside its try.
createBlipsCsv(data, url) ==
  LET columnNames == data.header
      rows == [k \in 1..Len(data.rows) |-> NamedRow(columnNames, data.rows[k])]
      blips == [k \in 1..Len(rows) |-> sanitize(rows[k])]
      plot == Plot(FileName(url), blips, CsvFile, <<>>)
  IN IF Validate(columnNames) /= NoError
     THEN [calls |-> ValidateCalls(columnNames), threw |-> Validate(columnNames),
           plot |-> NoPlot, blips |-> <<>>, sheetName |-> CsvFile]
     ELSE [calls |-> ValidateCalls(columnNames) \o Repeat(<<"sanitize">>, Len(rows))
                       \o <<"plotRadar">>,
           threw |-> plot.threw, plot |-> plot, blips |-> blips, sheetName |-> CsvFile]

\* values.forEach(function (value) { new ContentValidator(values[0]) ... }):
\* one validation of the first value per value, ended by the first failure.
ForEachValidate(values) ==
  IF values = <<>> THEN [calls |-> <<>>, threw |-> NoError]
  ELSE IF Validate(values[1]) /= NoError
       THEN [calls |-> ValidateCalls(values[1]), threw |-> Validate(values[1])]
       ELSE [calls |-> Repeat(ValidateCalls(values[1]), Len(values)), threw |-> NoError]

\* createBlipsForProtectedSheet that shifts twice: the first row is lost with
\* the header row.
createBlipsForProtectedSheetShiftTwice(documentTitle, values, sheetNames, sheetName) ==
  LET name == DesignatedSheet(sheetName, sheetNames)
      checked == ForEachValidate(values)
      header == IF values = <<>> THEN <<>> ELSE Head(values)
      all == IF Len(values) < 2 THEN <<>> ELSE Tail(Tail(values))
      blips == [k \in 1..Len(all) |-> sanitizeForProtectedSheet(all[k], header)]
      plot == Plot(documentTitle \o Dash \o name, blips, name, sheetNames)
  IN IF checked.threw /= NoError
     THEN [calls |-> checked.calls, threw |-> checked.threw, plot |-> NoPlot, blips |-> <<>>,
           sheetName |-> name]
     ELSE [calls |-> checked.calls \o Repeat(<<"sanitize">>, Len(all)) \o <<"plotRadar">>,
           threw |-> plot.threw, plot |-> plot, blips |-> blips, sheetName |-> name]

\* createBlipsForProtectedSheet(documentTitle, values, sheetNames): it has no
\* try, so threw is the exception that leaves it.
createBlipsForProtectedSheet(documentTitle, values, sheetNames, sheetName) ==
  LET name == DesignatedSheet(sheetName, sheetNames)
      checked == ForEachValidate(values)
      header == IF values = <<>> THEN <<>> ELSE Head(values)
      all == IF values = <<>> THEN <<>> ELSE Tail(values)
      blips == [k \in 1..Len(all) |-> sanitizeForProtectedSheet(all[k], header)]
      plot == Plot(documentTitle \o Dash \o name, blips, name, sheetNames)
  IN IF checked.threw /= NoError
     THEN [calls |-> checked.calls, threw |-> checked.threw, plot |-> NoPlot, blips |-> <<>>,
           sheetName |-> name]
     ELSE [calls |-> checked.calls \o Repeat(<<"sanitize">>, Len(all)) \o <<"plotRadar">>,
           threw |-> plot.threw, plot |-> plot, blips |-> blips, sheetName |-> name]

\* --------------------------------------------------------------------- state

VARIABLES
  nav,        \* window.location.search without its "?"
  pc,         \* "start" before GoogleSheetInput.build has run, "built" after
  gen,        \* number of ingestion flows started on this page
  pending,    \* the remote operations in flight, each with its continuation
  page,       \* the content blocks appended to the body, in order
  loading,    \* whether a '.loading' element is in the document
  docTitle,   \* document.title
  graphed,    \* the Radars handed to GraphingRadar, in order
  escaped,    \* the exceptions that left an entry point uncaught
  listeners,  \* the DOMContentLoaded listeners registered on the document
  domLoaded,  \* whether DOMContentLoaded has fired
  clicks,     \* clicks on a displayed SWITCH ACCOUNT button
  last,       \* the last run of a createBlips handler: input and outcome
  log         \* the steps of the flows, in the order they happened

vars == <<nav, pc, gen, pending, page, loading, docTitle, graphed, escaped,
          listeners, domLoaded, clicks, last, log>>

NoRun ==
  [path |-> "none", flow |-> 0, empty |-> FALSE, header |-> <<>>, rows |-> <<>>,
   sheetNames |-> <<>>, requested |-> Undefined, readWith |-> Undefined,
   designated |-> Undefined, calls |-> <<>>, threw |-> NoError,
   plotted |-> FALSE, ringsCreated |-> 0, quadrantsCreated |-> 0, blipsCreated |-> 0,
   shown |-> FALSE]

Init ==
  /\ nav \in NavContexts
  /\ pc = "start"
  /\ gen = 0
  /\ pending = <<>>
  /\ page = <<>>
  /\ loading = FALSE
  /\ docTitle = <<>>
  /\ graphed = <<>>
  /\ escaped = <<>>
  /\ listeners = <<>>
  /\ domLoaded = FALSE
  /\ clicks = 0
  /\ last = NoRun
  /\ log = <<>>

Without(ops, i) == SubSeq(ops, 1, i - 1) \o SubSeq(ops, i + 1, Len(ops))

Op(op, flow, force, remove, sheetName) ==
  [op |-> op, flow |-> flow, force |-> force, remove |-> remove, sheetName |-> sheetName]

Block(kind, message, flow) ==
  [kind |-> kind, message |-> message, flow |-> flow, shown |-> TRUE]

\* A step of a flow: ev names it; force, status and what carry the force flag
\* of a login, the status of an error response and the outcome or message.
Ev(ev, flow, force, status, what) ==
  [ev |-> ev, flow |-> flow, force |-> force, status |-> status, what |-> what]

\* ------------------------------------------------------------ the displays

\* plotErrorMessage: the message chosen by the class of the exception.
ErrorMessage(exception) ==
  IF exception = MalformedDataError THEN "malformed"
  ELSE IF exception = SheetNotFoundError THEN "notfound"
  ELSE "generic"

\* plotErrorMessage without d3.selectAll('.loading').remove().
plotErrorMessageKeepsLoading(exception, flow) ==
  /\ page' = Append(page, Block("error", ErrorMessage(exception), flow))
  /\ docTitle' = DefaultTitle
  /\ loading' = loading
  /\ listeners' = listeners

\* plotErrorMessage(exception): appends the error block, sets the title and
\* removes every '.loading' element.
plotErrorMessage(exception, flow) ==
  /\ page' = Append(page, Block("error", ErrorMessage(exception), flow))
  /\ docTitle' = DefaultTitle
  /\ loading' = FALSE
  /\ listeners' = listeners

\* plotUnauthorizedErrorMessage(): appends the account-mismatch block with
\* its SWITCH ACCOUNT button, and registers on the document a
\* DOMContentLoaded listener that re-authenticates with force and then
\* removes this block. The button gets no handler.
plotUnauthorizedErrorMessage(flow) ==
  /\ page' = Append(page, Block("unauthorized", "unauthorized", flow))
  /\ docTitle' = DefaultTitle
  /\ loading' = FALSE
  /\ listeners' = Append(listeners, [content |-> Len(page) + 1])

\* ---------------------------------------------------------------- Locator

\* GoogleSheetInput.build
Build ==
  /\ pc = "start"
  /\ pc' = "built"
  /\ LET kind == Classify(nav)
         queryParams == QueryParams(nav)
     IN CASE kind = "TypeError" ->
               /\ escaped' = Append(escaped, [from |-> "GoogleSheetInput.build",
                                              error |-> TypeError])
               /\ UNCHANGED <<gen, pending, page, loading, docTitle>>
          [] kind = "CSV" ->
               /\ gen' = gen + 1
               /\ loading' = TRUE
               /\ docTitle' = DefaultTitle
               /\ pending' = Append(pending, Op("csv", gen + 1, FALSE, 0, Undefined))
               /\ UNCHANGED <<page, escaped>>
          [] kind = "GoogleSheet" ->
               /\ gen' = gen + 1
               /\ loading' = TRUE
               /\ docTitle' = DefaultTitle
               /\ pending' = Append(pending, Op("validate", gen + 1, FALSE, 0,
                                                queryParams.sheetName))
               /\ UNCHANGED <<page, escaped>>
          [] OTHER ->
               /\ page' = Append(page, Block("form", "form", 0))
               /\ docTitle' = DefaultTitle
               /\ UNCHANGED <<gen, pending, loading, escaped>>
  /\ log' = Append(log, Ev("build", 0, FALSE, 0, Classify(nav)))
  /\ UNCHANGED <<nav, graphed, listeners, domLoaded, clicks, last>>

\* ------------------------------------------------------ GoogleSheet.build

Outcomes == {NoError, SheetNotFoundError, OtherError, "AccessDenied"}

\* ValidateBranch without the instanceof SheetNotFoundError test: every error
\* goes on to authenticate.
ValidateBranchNoNotFound(error) ==
  IF error = NoError THEN "Tabletop.init" ELSE "authenticate"

\* ValidateBranch that also displays an access denial as an error at once.
ValidateBranchDeniedIsError(error) ==
  IF error = NoError THEN "Tabletop.init"
  ELSE IF error \in {SheetNotFoundError, "AccessDenied"} THEN "plotErrorMessage"
  ELSE "authenticate"

\* The callback of sheet.validate: which of its three branches an outcome of
\* the anonymous validation takes.
ValidateBranch(error) ==
  IF error = NoError THEN "Tabletop.init"
  ELSE IF error = SheetNotFoundError THEN "plotErrorMessage"
  ELSE "authenticate"

\* authenticate that logs in both from the loadGoogle callback and directly.
authenticateTwice(force, remove, flow, sheetName) ==
  <<Op("loadGoogle", flow, force, remove, sheetName),
    Op("login", flow, force, remove, sheetName)>>

\* self.authenticate(force, callback): GoogleAuth.loadGoogle is started; its
\* continuation logs in with the force flag.
authenticate(force, remove, flow, sheetName) ==
  <<Op("loadGoogle", flow, force, remove, sheetName)>>

\* The steps logged for the operations an authenticate call starts.
Started(ops) == [k \in 1..Len(ops) |-> Ev(ops[k].op, ops[k].flow, ops[k].force, 0, "")]

ValidateResponds ==
  \E i \in 1..Len(pending) :
    /\ pending[i].op = "validate"
    /\ \E error \in Outcomes :
         LET branch == ValidateBranch(error)
             op == pending[i]
             answered == Append(log, Ev("validate", op.flow, FALSE, 0, error))
         IN CASE branch = "Tabletop.init" ->
                   /\ pending' = Without(pending, i)
                                   \o <<Op("tabletop", op.flow, FALSE, 0, op.sheetName)>>
                   /\ log' = answered
                   /\ UNCHANGED <<page, docTitle, loading, listeners>>
              [] branch = "plotErrorMessage" ->
                   /\ pending' = Without(pending, i)
                   /\ plotErrorMessage(error, op.flow)
                   /\ log' = Append(answered, Ev("display", op.flow, FALSE, 0,
                                                 ErrorMessage(error)))
              [] OTHER ->
                   /\ pending' = Without(pending, i)
                                   \o authenticate(FALSE, 0, op.flow, op.sheetName)
                   /\ log' = answered
                               \o Started(authenticate(FALSE, 0, op.flow, op.sheetName))
                   /\ UNCHANGED <<page, docTitle, loading, listeners>>
    /\ UNCHANGED <<nav, pc, gen, graphed, escaped, domLoaded, clicks, last>>

\* Sheet.processSheetResponse(sheetName, ...): the sheet name the values are
\* read with, the first discovered tab when none was requested.
ReadWith(sheetName, sheetNames) ==
  IF sheetName = Undefined \/ sheetName = <<>> THEN sheetNames[1] ELSE sheetName

\* The end of a createBlips handler: out is what its body did; header and
\* rows are the table it was given and empty tells that it was given none
\* (no value at all, or no sheet of the designated name); caught is whether
\* the handler has the try/catch; shown is whether plotErrorMessage ends up
\* called with the exception.
Finish(path, op, out, header, rows, empty, sheetNames, caught, shown, from) ==
  /\ last' = [path |-> path, flow |-> op.flow, empty |-> empty, header |-> header,
              rows |-> rows, sheetNames |-> sheetNames, requested |-> op.sheetName,
              readWith |-> IF path = "protected" THEN ReadWith(op.sheetName, sheetNames)
                           ELSE Undefined,
              designated |-> out.sheetName,
              calls |-> out.calls, threw |-> out.threw, plotted |-> out.plot.called,
              ringsCreated |-> out.plot.ringsCreated,
              quadrantsCreated |-> out.plot.quadrantsCreated,
              blipsCreated |-> out.plot.blipsCreated,
              shown |-> (out.threw /= NoError /\ shown)]
  /\ IF out.threw = NoError
     THEN /\ graphed' = Append(graphed, [radar |-> out.plot.radar, flow |-> op.flow,
                                         title |-> out.plot.title])
          /\ docTitle' = out.plot.title
          /\ loading' = FALSE
          /\ log' = log \o <<Ev("rows", op.flow, FALSE, 0, path),
                             Ev("radar", op.flow, FALSE, 0, path)>>
          /\ UNCHANGED <<page, escaped, listeners>>
     ELSE /\ graphed' = graphed
          /\ escaped' = IF caught THEN escaped
                        ELSE Append(escaped, [from |-> from, error |-> out.threw])
          /\ IF shown
             THEN /\ plotErrorMessage(out.threw, op.flow)
                  /\ log' = log \o <<Ev("rows", op.flow, FALSE, 0, path),
                                     Ev("threw", op.flow, FALSE, 0, out.threw),
                                     Ev("display", op.flow, FALSE, 0,
                                        ErrorMessage(out.threw))>>
             ELSE /\ docTitle' = IF out.plot.called THEN out.plot.title ELSE docTitle
                  /\ loading' = IF out.plot.called THEN FALSE ELSE loading
                  /\ log' = log \o <<Ev("rows", op.flow, FALSE, 0, path),
                                     Ev("threw", op.flow, FALSE, 0, out.threw)>>
                  /\ UNCHANGED <<page, listeners>>

\* The callback of Tabletop.init: createBlips(__, tabletop).
TabletopResponds ==
  \E i \in 1..Len(pending) :
    /\ pending[i].op = "tabletop"
    /\ \E table \in Tables, names \in SheetNameLists :
         LET tabletop == [foundSheetNames |-> names, googleSheetName |-> DocName,
                          table |-> table]
             out == createBlips(tabletop, pending[i].sheetName)
             found == out.sheetName \in Range(names)
         IN Finish("public", pending[i], out,
                   IF found THEN table.header ELSE <<>>,
                   IF found THEN table.rows ELSE <<>>,
                   ~found, names, TRUE, TRUE, "createBlips")
    /\ pending' = Without(pending, i)
    /\ UNCHANGED <<nav, pc, gen, domLoaded, clicks>>

\* ------------------------------------------------------------- CSVDocument

\* d3.csv(url).then(createBlips), the fetch having succeeded.
CsvLoaded ==
  \E i \in 1..Len(pending) :
    /\ pending[i].op = "csv"
    /\ \E data \in Tables :
         LET out == createBlipsCsv(data, QueryParams(nav).sheetId)
         IN Finish("csv", pending[i], out, data.header, data.rows, FALSE, <<>>,
                   TRUE, TRUE, "createBlips")
    /\ pending' = Without(pending, i)
    /\ UNCHANGED <<nav, pc, gen, domLoaded, clicks>>

\* d3.csv(url) rejected: the promise chain has no catch.
CsvFails ==
  \E i \in 1..Len(pending) :
    /\ pending[i].op = "csv"
    /\ pending' = Without(pending, i)
    /\ escaped' = Append(escaped, [from |-> "CSVDocument.build", error |-> OtherError])
    /\ log' = Append(log, Ev("csvFailed", pending[i].flow, FALSE, 0, OtherError))
    /\ UNCHANGED <<nav, pc, gen, page, loading, docTitle, graphed, listeners,
                   domLoaded, clicks, last>>

\* ---------------------------------------------------- GoogleSheet.authenticate

\* The callback of GoogleAuth.loadGoogle: GoogleAuth.login(..., force).
LoadGoogleDone ==
  \E i \in 1..Len(pending) :
    /\ pending[i].op = "loadGoogle"
    /\ pending' = Without(pending, i) \o <<[pending[i] EXCEPT !.op = "login"]>>
    /\ log' = Append(log, Ev("login", pending[i].flow, pending[i].force, 0, ""))
    /\ UNCHANGED <<nav, pc, gen, page, loading, docTitle, graphed, escaped, listeners,
                   domLoaded, clicks, last>>

\* AfterLogin with the login callback left registered: it can run again.
AfterLoginStillListening(ops, i) ==
  ops \o <<[ops[i] EXCEPT !.op = "read", !.remove = 0]>>

\* The operations in flight once the login callback has run: the login is
\* over and sheet.processSheetResponse(sheetName, ...) is started.
AfterLogin(ops, i) ==
  Without(ops, i) \o <<[ops[i] EXCEPT !.op = "read", !.remove = 0]>>

\* The callback of GoogleAuth.login: the protected read is issued, then the
\* callback of authenticate, if any, runs (content.remove()).
LoginSucceeds ==
  \E i \in 1..Len(pending) :
    /\ pending[i].op = "login"
    /\ pending' = AfterLogin(pending, i)
    /\ page' = IF pending[i].remove = 0 THEN page
               ELSE [page EXCEPT ![pending[i].remove].shown = FALSE]
    /\ log' = log \o <<Ev("read", pending[i].flow, pending[i].force, 0, "")>>
                  \o (IF pending[i].remove = 0 THEN <<>>
                      ELSE <<Ev("remove", pending[i].flow, FALSE, 0, "unauthorized")>>)
    /\ UNCHANGED <<nav, pc, gen, loading, docTitle, graphed, escaped, listeners,
                   domLoaded, clicks, last>>

\* The login does not succeed: GoogleAuth.login never runs its callback.
LoginFails ==
  \E i \in 1..Len(pending) :
    /\ pending[i].op = "login"
    /\ pending' = Without(pending, i)
    /\ log' = Append(log, Ev("loginFailed", pending[i].flow, pending[i].force, 0, ""))
    /\ UNCHANGED <<nav, pc, gen, page, loading, docTitle, graphed, escaped, listeners,
                   domLoaded, clicks, last>>

\* ReadErrorBranch that takes every 4xx authorization status for a 403.
ReadErrorBranchAnyAuthStatus(status) ==
  IF status \in {401, 403} THEN "plotUnauthorizedErrorMessage" ELSE "plotErrorMessage"

\* The error callback of processSheetResponse: which display an error
\* response takes; an exception has no status (modelled as 0).
ReadErrorBranch(status) ==
  IF status = 403 THEN "plotUnauthorizedErrorMessage" ELSE "plotErrorMessage"

Statuses == {401, 403, 404, 500}

\* The protected read answers with an error response.
ReadFails ==
  \E i \in 1..Len(pending) :
    /\ pending[i].op = "read"
    /\ pending' = Without(pending, i)
    /\ \E status \in Statuses :
         IF ReadErrorBranch(status) = "plotUnauthorizedErrorMessage"
         THEN /\ plotUnauthorizedErrorMessage(pending[i].flow)
              /\ log' = log \o <<Ev("readError", pending[i].flow, FALSE, status, ""),
                                 Ev("display", pending[i].flow, FALSE, 0, "unauthorized")>>
         ELSE /\ plotErrorMessage(OtherError, pending[i].flow)
              /\ log' = log \o <<Ev("readError", pending[i].flow, FALSE, status, ""),
                                 Ev("display", pending[i].flow, FALSE, 0,
                                    ErrorMessage(OtherError))>>
    /\ UNCHANGED <<nav, pc, gen, graphed, escaped, domLoaded, clicks, last>>

\* The protected read answers with values: createBlipsForProtectedSheet runs.
\* An exception leaves it; whether the caller inside Sheet hands it to the
\* error callback is not decided by this file, so both are possible.
ReadSucceeds ==
  \E i \in 1..Len(pending) :
    /\ pending[i].op = "read"
    /\ pending' = Without(pending, i)
    /\ \E values \in ValueSeqs, names \in SheetNameLists, routed \in BOOLEAN :
         LET out == createBlipsForProtectedSheet(DocName, values, names,
                                                 pending[i].sheetName)
             shown == routed /\ ReadErrorBranch(0) = "plotErrorMessage"
         IN /\ out.threw = NoError => routed
            /\ Finish("protected", pending[i], out,
                      IF values = <<>> THEN <<>> ELSE Head(values),
                      IF values = <<>> THEN <<>> ELSE Tail(values),
                      values = <<>>, names, FALSE, shown,
                      "createBlipsForProtectedSheet")
    /\ UNCHANGED <<nav, pc, gen, domLoaded, clicks>>

\* ------------------------------------------------- the switch-account retry

\* The listeners of DOMContentLoaded, run in order of registration: each
\* builds a GoogleSheet from the query parameters and calls
\* authenticate(true, _ => content.remove()).
RECURSIVE RunListeners(_, _)
RunListeners(ls, flow) ==
  IF ls = <<>> THEN <<>>
  ELSE authenticate(TRUE, Head(ls).content, flow + 1, QueryParams(nav).sheetName)
         \o RunListeners(Tail(ls), flow + 1)

\* The browser fires DOMContentLoaded, once per document.
DOMContentLoaded ==
  /\ ~domLoaded
  /\ domLoaded' = TRUE
  /\ pending' = pending \o RunListeners(listeners, gen)
  /\ gen' = gen + Len(listeners)
  /\ log' = log \o Started(RunListeners(listeners, gen))
  /\ UNCHANGED <<nav, pc, page, loading, docTitle, graphed, escaped, listeners,
                 clicks, last>>

\* The user clicks a displayed SWITCH ACCOUNT button: no handler is attached
\* to it, so nothing runs.
ClickSwitchAccount ==
  /\ clicks < MaxClicks
  /\ \E k \in 1..Len(page) : page[k].kind = "unauthorized" /\ page[k].shown
  /\ clicks' = clicks + 1
  /\ log' = Append(log, Ev("click", gen, FALSE, 0, "switch-account"))
  /\ UNCHANGED <<nav, pc, gen, pending, page, loading, docTitle, graphed, escaped,
                 listeners, domLoaded, last>>

\* ------------------------------------------------------------ specification

Next ==
  \/ Build
  \/ DOMContentLoaded
  \/ ClickSwitchAccount
  \/ ValidateResponds
  \/ TabletopResponds
  \/ CsvLoaded
  \/ CsvFails
  \/ LoadGoogleDone
  \/ LoginSucceeds
  \/ LoginFails
  \/ ReadSucceeds
  \/ ReadFails

Spec == Init /\ [][Next]_vars

\* ------------------------------------------------- the functions, called alone

\* Longest sequence of blips handed to plotRadar when it is called alone.
MaxBlips == 5
\* Longest table handed to both sheet handlers.
MaxPaired == 3

\* A NormalizedBlip as the sanitizer hands it to plotRadar.
Normalized(name, ring, quadrant, isNew) ==
  [name |-> name, ring |-> ring, quadrant |-> quadrant, isNew |-> isNew,
   topic |-> <<>>, description |-> <<"d">>]

\* Four ring names, two of which differ only by case; quadrant keys that
\* differ only by case; the spellings of isNew. The name tells the blips
\* apart. InheritedBlip has a fifth ring name and a quadrant key that {}
\* inherits.
SampleBlips ==
  { Normalized(<<"1">>, <<"a">>, <<"q">>, <<"t", "r", "u", "e">>),
    Normalized(<<"2">>, <<"A">>, <<"Q">>, <<"T", "r", "u", "e">>),
    Normalized(<<"3">>, <<"c">>, <<"p">>, <<"T", "R", "U", "E">>),
    Normalized(<<"4">>, <<"d">>, <<"q">>, <<"y", "e", "s">>),
    Normalized(<<"5">>, <<"a">>, <<"p">>, <<>>) }

InheritedBlip == Normalized(<<"6">>, <<"e">>, Constructor, <<"t", "r", "u", "e">>)

RECURSIVE SeqsOf(_, _)
SeqsOf(S, n) ==
  IF n = 0 THEN {<<>>}
  ELSE UNION {{Append(sq, x) : x \in S} : sq \in SeqsOf(S, n - 1)}

\* The sequences of blips plotRadar is called on: those of the sample blips,
\* and those that end with the blip of the inherited quadrant key (the pass
\* over the blips ends at that blip).
BlipSeqs ==
  UNION {SeqsOf(SampleBlips, n)
           \cup (IF n = 0 THEN {}
                 ELSE {Append(sq, InheritedBlip) : sq \in SeqsOf(SampleBlips, n - 1)})
         : n \in 0..MaxBlips}

\* The values of the sheetId parameter, None standing for its absence.
None == <<"none">>
SheetIdValues ==
  { None, <<>>, <<"a", "b", "c">>, <<"d">> \o DotCsv, <<"x">> \o Csv,
    Https \o OtherHost \o <<"/", "d">> \o DotCsv,
    Https \o OtherHost \o <<"/", "s">>,
    Https \o GoogleHost \o <<"/", "s">>,
    Https \o GoogleHost \o <<"/", "d">> \o DotCsv,
    Https \o GoogleHost \o <<"/">> \o Csv }

\* What precedes the sheetId parameter in the query string.
Prefixes ==
  { <<>>,
    <<"q", "=">> \o Https \o GoogleHost \o <<"/", "&">>,
    <<"q", "=">> \o Https \o OtherHost \o <<"/", "&">> }

\* The query strings GoogleSheetInput.build is called on alone.
Locations ==
  UNION {{prefix \o (IF id = None THEN <<>> ELSE SheetIdKey \o <<"=">> \o id) \o suffix :
            suffix \in {<<>>, <<"&">> \o SheetNameKey \o <<"=">> \o TabB},
            id \in SheetIdValues}
         : prefix \in Prefixes}

\* The header rows of the tables handed to both sheet handlers: the columns
\* in the order of the form, in another order, one column short, and none.
ShuffledHeader == <<"description", "isNew", "quadrant", "ring", "name">>
PairedHeaders == {GoodHeader, ShuffledHeader, ShortHeader, <<>>}

PairedTables ==
  UNION {UNION {{[header |-> h,
                  rows |-> [k \in 1..n |-> Positional(h, rows[k])]]
                   : rows \in DeliveredRows(n)} : n \in 0..MaxPaired}
         : h \in PairedHeaders}

PureInit ==
  /\ nav = <<>>
  /\ pc = "call"
  /\ gen = 0
  /\ pending = <<>>
  /\ page = <<>>
  /\ loading = FALSE
  /\ docTitle = <<>>
  /\ graphed = <<>>
  /\ escaped = <<>>
  /\ listeners = <<>>
  /\ domLoaded = FALSE
  /\ clicks = 0
  /\ last = NoRun
  /\ log = <<>>

\* The branch of GoogleSheetInput.build on one query string.
CallBuild ==
  /\ pc = "call"
  /\ pc' = "returned"
  /\ \E search \in Locations :
       /\ nav' = search
       /\ last' = [path |-> "build", kind |-> Classify(search)]
  /\ UNCHANGED <<gen, pending, page, loading, docTitle, graphed, escaped, listeners,
                 domLoaded, clicks, log>>

\* One call of plotRadar on a sequence of NormalizedBlips.
CallPlotRadar ==
  /\ pc = "call"
  /\ pc' = "returned"
  /\ \E blips \in BlipSeqs :
       LET plot == Plot(DocName \o Dash \o TabA, blips, TabA, <<TabA, TabB>>)
       IN /\ last' = [path |-> "plotRadar", blips |-> blips, plot |-> plot]
          /\ graphed' = IF plot.threw = NoError
                        THEN <<[radar |-> plot.radar, flow |-> 0, title |-> plot.title]>>
                        ELSE <<>>
          /\ docTitle' = plot.title
  /\ UNCHANGED <<nav, gen, pending, page, loading, escaped, listeners, domLoaded,
                 clicks, log>>

\* The same table handed to the handler of the public sheet, keyed by column
\* name, and to the handler of the protected sheet, as the header row
\* followed by the positional rows.
CallCreateBlips ==
  /\ pc = "call"
  /\ pc' = "returned"
  /\ \E table \in PairedTables, names \in SheetNameLists,
        sheetName \in {Undefined, TabA, TabB} :
       LET tabletop == [foundSheetNames |-> names, googleSheetName |-> DocName,
                        table |-> table]
       IN last' = [path |-> "both", header |-> table.header, rows |-> table.rows,
                   sheetNames |-> names, requested |-> sheetName,
                   public |-> createBlips(tabletop, sheetName),
                   protected |-> createBlipsForProtectedSheet(
                                   DocName, <<table.header>> \o table.rows, names,
                                   sheetName)]
  /\ UNCHANGED <<nav, gen, pending, page, loading, docTitle, graphed, escaped,
                 listeners, domLoaded, clicks, log>>

PureNext ==
  \/ CallBuild
  \/ CallPlotRadar
  \/ CallCreateBlips

PureSpec == PureInit /\ [][PureNext]_vars

\* ------------------------------------------------------------------ claims

ShownBlocks == {k \in 1..Len(page) : page[k].shown}

ErrorShown == \E k \in ShownBlocks : page[k].kind \in {"error", "unauthorized"}

Steps(ev) == {k \in 1..Len(log) : log[k].ev = ev}

\* The outcome the anonymous validation reported, "unset" before it answers.
AnonOutcome ==
  IF Steps("validate") = {} THEN "unset"
  ELSE log[CHOOSE k \in Steps("validate") : TRUE].what

\* The cell of a positional row under a column label, blank when absent.
Cell(header, row, column) ==
  IF IndexOf(header, column) \in 1..Len(row) THEN row[IndexOf(header, column)] ELSE <<>>

\* The distinct ring names of a table, blanks around them not counting.
RingsOf(header, rows) == {Trim(Cell(header, rows[k], "ring")) : k \in 1..Len(rows)}

RadarHasRow(radar, header, row) ==
  \E q \in 1..Len(radar.quadrants) :
    /\ radar.quadrants[q].name = Capitalize(Trim(Cell(header, row, "quadrant")))
    /\ \E b \in 1..Len(radar.quadrants[q].blips) :
         /\ radar.quadrants[q].blips[b].name = Trim(Cell(header, row, "name"))
         /\ radar.quadrants[q].blips[b].ring.name = Trim(Cell(header, row, "ring"))

BlipTotal(radar) ==
  LET n == Len(radar.quadrants)
      sizes == [q \in 1..n |-> Len(radar.quadrants[q].blips)]
      sum[q \in 0..n] == IF q = 0 THEN 0 ELSE sum[q - 1] + sizes[q]
  IN sum[n]

\* The Radar holds one Blip per row and no other.
IngestedExactly(radar, header, rows) ==
  /\ BlipTotal(radar) = Len(rows)
  /\ \A k \in 1..Len(rows) : RadarHasRow(radar, header, rows[k])

\* C1: once the anonymous validation has reported SheetNotFoundError, the
\* not-found message is displayed, nothing is in flight, and no loadGoogle,
\* login or protected read has been started, then or at any later time.
C1_NotFoundIsTerminal ==
  AnonOutcome = SheetNotFoundError =>
    /\ pending = <<>>
    /\ \E k \in ShownBlocks : page[k].kind = "error" /\ page[k].message = "notfound"
    /\ \A k \in 1..Len(log) : log[k].ev \notin {"loadGoogle", "login", "read"}
    /\ graphed = <<>>

C1_Witness == AnonOutcome = SheetNotFoundError /\ domLoaded

\* C2: an anonymous-read error other than SheetNotFoundError is followed at
\* once by an authenticate with force = false, and no message is displayed
\* before the non-forced login of that flow has started.
C2_OtherErrorAuthenticates ==
  \A k \in Steps("validate") :
    log[k].what \notin {NoError, SheetNotFoundError} =>
      /\ Len(log) > k
      /\ log[k + 1].ev = "loadGoogle"
      /\ ~log[k + 1].force
      /\ \A d \in (k + 1)..Len(log) :
           log[d].ev = "display" =>
             \E j \in (k + 1)..(d - 1) :
               log[j].ev = "login" /\ ~log[j].force /\ log[j].flow = log[k].flow

C2_Witness ==
  /\ AnonOutcome = "AccessDenied"
  /\ \E i \in 1..Len(pending) : pending[i].op = "login" /\ ~pending[i].force

\* The protected read that follows an access-denied anonymous read and a
\* login has returned rows under a header row naming every required column.
ProtectedRowsAfterDenial ==
  /\ AnonOutcome = "AccessDenied"
  /\ last.path = "protected"
  /\ RequiredHeaders \subseteq Range(last.header)
  /\ Len(last.rows) >= 1

SuccessfulIngestion ==
  /\ graphed /= <<>>
  /\ graphed[Len(graphed)].flow = last.flow
  /\ IngestedExactly(graphed[Len(graphed)].radar, last.header, last.rows)
  /\ ~ErrorShown

\* C3 as stated: after an access-denied anonymous read and a successful
\* login, a protected read that returns rows (read here as rows under a
\* complete header row) ends in a Radar built from exactly those rows, with
\* no error display.
C3_RowsAlwaysIngested == ProtectedRowsAfterDenial => SuccessfulIngestion

\* C4: every error response of the protected read is followed by a display:
\* the unauthorized message for status 403, the generic error message and no
\* unauthorized message for any other status.
C4_ReadErrorDisplays ==
  \A k \in Steps("readError") :
    /\ Len(log) > k
    /\ log[k + 1].ev = "display"
    /\ log[k + 1].flow = log[k].flow
    /\ log[k + 1].what = (IF log[k].status = 403 THEN "unauthorized" ELSE "generic")
    /\ \E b \in 1..Len(page) :
         /\ page[b].flow = log[k].flow
         /\ page[b].kind = (IF log[k].status = 403 THEN "unauthorized" ELSE "error")
    /\ log[k].status /= 403 =>
         \A b \in 1..Len(page) :
           page[b].flow = log[k].flow => page[b].kind /= "unauthorized"

C4_Witness ==
  /\ \E k \in Steps("readError") : log[k].status = 403
  /\ \E k \in Steps("readError") : log[k].status = 500

\* C5 as stated: a click on the SWITCH ACCOUNT button of the Forbidden
\* display starts a login with the force flag set.
C5_SwitchAccountForcesLogin ==
  [][clicks' = clicks + 1 =>
       /\ Len(pending') > Len(pending)
       /\ \E i \in 1..Len(pending') :
            pending'[i].force /\ pending'[i].op \in {"loadGoogle", "login"}]_vars

\* C6: once a forced re-login has been started, every later mutation of the
\* page (a display, a Radar, a removed block, a createBlips run) is made by a
\* flow at least as new, and nothing of an older flow is still in flight.
C6_NoStaleContinuation ==
  /\ \A j \in Steps("loadGoogle") :
       log[j].force =>
         \A k \in (j + 1)..Len(log) :
           log[k].ev \in {"display", "radar", "remove", "rows"} =>
             log[k].flow >= log[j].flow
  /\ gen >= 2 => \A i \in 1..Len(pending) : pending[i].flow = gen

C6_Witness ==
  /\ gen >= 2
  /\ graphed /= <<>>
  /\ graphed[Len(graphed)].flow = gen
  /\ ~ErrorShown

\* C7: at most one remote operation (anonymous read, login, protected read)
\* is in flight, and at most one login is active.
C7_AtMostOneInFlight ==
  /\ Len(pending) <= 1
  /\ Cardinality({i \in 1..Len(pending) : pending[i].op \in {"loadGoogle", "login"}}) <= 1

C7_Witness ==
  /\ Len(listeners) >= 1
  /\ \E i \in 1..Len(pending) : pending[i].op = "login" /\ pending[i].force

\* C8: a table with more than 4 distinct ring names ends in
\* MalformedDataError, thrown by plotRadar when the header row is valid,
\* with no Quadrant and no Blip created and no Radar handed to GraphingRadar.
C8_TooManyRingsFails ==
  (last.path /= "none" /\ Cardinality(RingsOf(last.header, last.rows)) > 4) =>
    /\ last.threw = MalformedDataError
    /\ RequiredHeaders \subseteq Range(last.header) => last.plotted
    /\ last.quadrantsCreated = 0
    /\ last.blipsCreated = 0
    /\ graphed = <<>>

C8_Witness ==
  /\ last.path = "protected"
  /\ last.plotted
  /\ Cardinality(RingsOf(last.header, last.rows)) > 4

\* C9 as stated: an exception raised in a createBlips handler is caught
\* there and turned into an error display; none leaves an entry point.
C9_NoExceptionEscapes ==
  last.threw /= NoError =>
    /\ \E k \in ShownBlocks : page[k].kind = "error" /\ page[k].flow = last.flow
    /\ \A k \in 1..Len(escaped) :
         escaped[k].from \notin {"createBlips", "createBlipsForProtectedSheet"}

\* C10 as stated: in every createBlips run verifyContent and verifyHeaders
\* are both called before the first sanitize and before plotRadar, and a
\* run on zero rows ends in MalformedDataError without calling plotRadar.
C10_ValidatedBeforeUse ==
  last.path /= "none" =>
    /\ \A k \in 1..Len(last.calls) :
         last.calls[k] \in {"sanitize", "plotRadar"} =>
           /\ \E j \in 1..(k - 1) : last.calls[j] = "verifyContent"
           /\ \E j \in 1..(k - 1) : last.calls[j] = "verifyHeaders"
    /\ (Len(last.rows) = 0 /\ ~(last.path = "public" /\ last.empty)) =>
         (last.threw = MalformedDataError /\ ~last.plotted)

\* The source kind the Locator is said to produce: CSV when a sheetId is
\* given and ends with ".csv", GoogleSheet when a sheetId is given and the
\* extracted domain ends with the provider's suffix, FormPrompt otherwise.
ClaimedKind(search) ==
  LET sheetId == QueryParams(search).sheetId
      given == sheetId /= Undefined /\ sheetId /= <<>>
      domainName == DomainName(search)
  IN IF given /\ EndsWith(sheetId, DotCsv) THEN "CSV"
     ELSE IF /\ given
             /\ domainName /= Null
             /\ EndsWith(domainName, SubSeq(GoogleHost, 6, 15))
          THEN "GoogleSheet"
     ELSE "FormPrompt"

\* C11 as stated: GoogleSheetInput.build takes the CSV branch when the
\* sheetId ends with ".csv", the GoogleSheet branch when a sheetId is given
\* and the domain ends with the provider's suffix, and shows the form
\* otherwise.
C11_ClassifiedAsStated ==
  last.path = "build" => last.kind = ClaimedKind(nav)

\* C12 as stated: with the sheetId parameter missing or malformed (no URL),
\* GoogleSheetInput.build throws nothing and shows the entry form.
C12_MissingSheetIdShowsForm ==
  (/\ pc = "built"
   /\ \/ QueryParams(nav).sheetId \in {Undefined, <<>>}
      \/ DomainName(QueryParams(nav).sheetId) = Null) =>
    /\ escaped = <<>>
    /\ \E k \in ShownBlocks : page[k].kind = "form"

\* The distinct values of a field over a sequence of blips.
Values(blips, field) == {blips[k][field] : k \in 1..Len(blips)}

\* The Blips of a Radar, each with the name of its Quadrant.
RadarBlips(radar) ==
  UNION {{[quadrant |-> radar.quadrants[q].name, blip |-> radar.quadrants[q].blips[b]] :
            b \in 1..Len(radar.quadrants[q].blips)}
         : q \in 1..Len(radar.quadrants)}

\* The 1-based index of the first blip with a ring name.
FirstRow(blips, ringName) ==
  CHOOSE k \in 1..Len(blips) :
    blips[k].ring = ringName /\ \A j \in 1..(k - 1) : blips[j].ring /= ringName

PlotRadarDone == last.path = "plotRadar" /\ last.plot.threw = NoError

\* C13 as stated: on blips with at most 4 distinct ring names plotRadar
\* builds a Radar with one Quadrant per distinct quadrant value, one Ring per
\* distinct ring value and one Blip per row, each Blip in the Quadrant of
\* its row.
C13_CountsAsStated ==
  (last.path = "plotRadar" /\ Cardinality(Values(last.blips, "ring")) <= 4) =>
    /\ last.plot.threw = NoError
    /\ Len(last.plot.radar.quadrants) = Cardinality(Values(last.blips, "quadrant"))
    /\ last.plot.ringsCreated = Cardinality(Values(last.blips, "ring"))
    /\ BlipTotal(last.plot.radar) = Len(last.blips)
    /\ \A rb \in RadarBlips(last.plot.radar) :
         \E k \in 1..Len(last.blips) :
           /\ last.blips[k].name = rb.blip.name
           /\ Capitalize(last.blips[k].quadrant) = rb.quadrant

\* What C14 says of the Rings and the ring references, order left aside:
\* one Ring per distinct ring name, orders in 0..3 and pairwise distinct,
\* every Blip referring to the Ring created for the ring name of its row.
RingsWellFormed ==
  LET ringMap == last.plot.ringMap
  IN /\ \A name \in Values(last.blips, "ring") :
          Cardinality({k \in 1..Len(ringMap) : ringMap[k].name = name}) = 1
     /\ \A k \in 1..Len(ringMap) :
          /\ ringMap[k].name \in Values(last.blips, "ring")
          /\ ringMap[k].order \in 0..3
          /\ \A j \in 1..Len(ringMap) : ringMap[j].order = ringMap[k].order => j = k
     /\ \A rb \in RadarBlips(last.plot.radar) :
          /\ rb.blip.ring.name /= Undefined
          /\ \E k \in 1..Len(ringMap) : ringMap[k] = rb.blip.ring
          /\ \E j \in 1..Len(last.blips) :
               /\ last.blips[j].name = rb.blip.name
               /\ last.blips[j].ring = rb.blip.ring.name

\* C14 as stated: in a completed Radar the order of a Ring is the index, in
\* the row sequence, of the first row with its name; and the Rings and ring
\* references are well formed.
C14_OrderIsRowIndex ==
  PlotRadarDone =>
    /\ RingsWellFormed
    /\ \A k \in 1..Len(last.plot.ringMap) :
         last.plot.ringMap[k].order
           = FirstRow(last.blips, last.plot.ringMap[k].name) - 1

\* C14 amended: the order of a Ring is the number of distinct ring names
\* that appear in the row sequence before the first row with its name; and
\* the Rings and ring references are well formed.
C14_OrderIsRankOfFirstAppearance ==
  PlotRadarDone =>
    /\ RingsWellFormed
    /\ \A k \in 1..Len(last.plot.ringMap) :
         last.plot.ringMap[k].order
           = Cardinality({last.blips[j].ring :
                            j \in 1..(FirstRow(last.blips, last.plot.ringMap[k].name) - 1)})

\* A completed Radar of 4 Rings whose second ring name first appears in the
\* third row.
C14_Witness ==
  /\ PlotRadarDone
  /\ Len(last.plot.ringMap) = 4
  /\ Len(last.blips) = 5
  /\ last.blips[1].ring = last.blips[2].ring
  /\ last.blips[3].ring /= last.blips[1].ring

\* The spellings of "true" in upper and lower case.
TrueSpellings ==
  {<<t, r, u, e>> : t \in {"t", "T"}, r \in {"r", "R"}, u \in {"u", "U"}, e \in {"e", "E"}}

C16_ProtectedMatchesPublic ==
  (/\ last.path = "both"
   /\ DesignatedSheet(last.requested, last.sheetNames) \in Range(last.sheetNames)) =>
    /\ last.protected.plot.called <=> last.public.plot.called
    /\ last.protected.blips = last.public.blips
    /\ last.protected.plot.title = last.public.plot.title
    /\ last.protected.plot.called =>
         /\ Len(last.protected.blips) = Len(last.rows)
         /\ \A k \in 1..Len(last.rows) :
              /\ last.protected.blips[k].name = Trim(Cell(last.header, last.rows[k], "name"))
              /\ last.protected.blips[k].ring = Trim(Cell(last.header, last.rows[k], "ring"))

\* Both handlers have built a Radar from three rows under a header row whose
\* columns are not in the order of the form.
C16_Witness ==
  /\ last.path = "both"
  /\ last.header = ShuffledHeader
  /\ Len(last.rows) = 3
  /\ last.protected.threw = NoError
  /\ last.public.threw = NoError
  /\ last.protected.plot.called

\* The sheet name C17 expects of the last handler run: the requested one, or
\* the first discovered tab when none was requested.
ExpectedSheet ==
  IF last.requested \in {Undefined, <<>>} THEN last.sheetNames[1] ELSE last.requested

SheetRun == last.path \in {"public", "protected"}

RadarOfLastRun == last.plotted /\ last.threw = NoError

\* What C17 says of the sheet name: the protected read is made with the
\* expected sheet name, the handler designates it, and it is the current
\* sheet of the Radar.
SheetNameAsExpected ==
  /\ last.path = "protected" => last.readWith = ExpectedSheet
  /\ last.designated = ExpectedSheet
  /\ RadarOfLastRun => graphed[Len(graphed)].radar.currentSheet = ExpectedSheet

FirstFlowPending == \E i \in 1..Len(pending) : pending[i].flow = 1

\* The ingestion that init().build() started has reached a display: its
\* Radar, or an error or unauthorized message of its own.
FirstFlowDisplayed ==
  \/ \E k \in 1..Len(graphed) : graphed[k].flow = 1
  \/ \E k \in 1..Len(page) :
       page[k].flow = 1 /\ page[k].kind \in {"error", "unauthorized"}

\* C18 as stated, in the form a finite run refutes: once every remote
\* operation of the ingestion that init().build() started has reported its
\* outcome (a failed login and a failed CSV fetch included), the ingestion
\* has reached a terminal display: a Radar, an error message or the
\* unauthorized message.
C18_SettledFlowIsDisplayed ==
  (gen >= 1 /\ ~FirstFlowPending) => FirstFlowDisplayed

\* C19: whenever a Radar, an error message or the unauthorized message is
\* displayed no '.loading' element remains, and the placeholder is in the
\* document as long as an operation of the ingestion that init().build()
\* started is in flight.
C19_LoadingUntilOutcome ==
  /\ (graphed /= <<>> \/ ErrorShown) => ~loading
  /\ FirstFlowPending => loading

\* The placeholder is gone with an error message displayed, after a login and
\* a protected read.
C19_Witness ==
  /\ ~loading
  /\ last.path = "protected"
  /\ \E k \in ShownBlocks : page[k].kind = "error"
  /\ Steps("login") /= {}

====
